---- MODULE Spec2Model ----
(***************************************************************************)
(* Model of quantile_estimator: the biased-quantile Estimator (Cormode and *)
(* Muthukrishnan) and the TimeWindowEstimator ring built on it.            *)
(*                                                                         *)
(* Numbers.  Observed values are small integers (only their order matters  *)
(* to the code).  The doubles of _Quantile are modelled as exact rationals *)
(* [nan, n, d] with d > 0; the target configurations below keep quantile   *)
(* and 1 - quantile powers of two (or zero), so that every double the code *)
(* computes is exact and equals the rational computed here.  float("nan")  *)
(* is the rational with nan = TRUE; any comparison with it is false.       *)
(*                                                                         *)
(* The linked chain _head -> _successor -> ... is a sequence of samples;   *)
(* _head = None is the empty sequence.                                     *)
(***************************************************************************)
EXTENDS Integers, Sequences, FiniteSets, TLC

\* ------------------------------------------------------------------ bounds
\* Largest observed value; values are 1..MaxVal.
MaxVal == 3
\* Number of observe calls in one behaviour of the Estimator.
MaxObs == 4
\* _BUFFER_SIZE of the source is 512; it is scaled down so that the
\* buffer-full flush of observe happens within MaxObs calls.
BUFFER_SIZE == 3
\* Number of observe calls in one behaviour of the TimeWindowEstimator, and
\* the largest value it observes.
MaxWindowObs == 2
MaxWindowVal == 2
\* The wall clock advances TickMs milliseconds at a time, up to MaxClock.
TickMs == 400
MaxClock == 2000

Values == 1..MaxVal
WindowValues == 1..MaxWindowVal

\* ------------------------------------------------------------ rationals
Rat(n, d) == [nan |-> FALSE, n |-> n, d |-> d]
NaN == [nan |-> TRUE, n |-> 0, d |-> 1]

\* n / d with the sign moved to the numerator (d # 0).
RatDiv(n, d) == IF d < 0 THEN Rat(0 - n, 0 - d) ELSE Rat(n, d)

\* a * k for an integer k.
RatTimes(a, k) == IF a.nan THEN NaN ELSE Rat(a.n * k, a.d)

\* a < b as the doubles compare: false when either is not-a-number.
RatLess(a, b) == ~a.nan /\ ~b.nan /\ a.n * b.d < b.n * a.d

\* math.floor of a rational that is a number.
Floor(a) == a.n \div a.d

\* ------------------------------------------------------------ _Quantile
\* _Quantile(quantile, inaccuracy) with quantile = qn/qd, inaccuracy = en/ed.
Quantile(qn, qd, en, ed) ==
    [ qn |-> qn, qd |-> qd, en |-> en, ed |-> ed,
      coefficient_i  |-> IF qn # qd THEN RatDiv(2 * en * qd, ed * (qd - qn)) ELSE NaN,
      coefficient_ii |-> IF qn # 0 THEN RatDiv(2 * en * qd, ed * qn) ELSE NaN ]

\* _Quantile._delta(rank, n)
Delta(i, rank, n) ==
    IF rank <= (i.qn * n) \div i.qd
    THEN RatTimes(i.coefficient_i, n - rank)
    ELSE RatTimes(i.coefficient_ii, rank)

\* quantile and inaccuracy both along the [0, 1] interval.
WellFormedQuantile(i) ==
    /\ 0 <= i.qn /\ i.qn <= i.qd
    /\ 0 <= i.en /\ i.en <= i.ed

WellFormed(invs) == \A k \in 1..Len(invs) : WellFormedQuantile(invs[k])

\* -------------------------------------------------------------- _Sample
Sample(value, rank, delta) == [value |-> value, rank |-> rank, delta |-> delta]

\* ------------------------------------------------------------ Estimator
\* An Estimator object: _buffer, _head (the chain), _observations.
NewEstimator == [buffer |-> <<>>, head |-> <<>>, observations |-> 0]

\* The loop of Estimator._invariant over self._invariants, from target k on.
RECURSIVE InvariantLoop(_, _, _, _, _)
InvariantLoop(invs, k, rank, n, minimum) ==
    IF k > Len(invs) THEN minimum
    ELSE LET delta == Delta(invs[k], rank, n)
         IN  InvariantLoop(invs, k + 1, rank, n,
                           IF RatLess(delta, minimum) THEN delta ELSE minimum)

\* Estimator._invariant(rank, n)
Invariant(invs, rank, n) == Floor(InvariantLoop(invs, 1, rank, n, Rat(n + 1, 1)))

\* Estimator._replace_batch, the while loop: advance the cursor while it has a
\* successor and its value is less than b, adding its rank to the running rank.
RECURSIVE AdvanceCursor(_, _)
AdvanceCursor(st, b) ==
    IF st.cur < Len(st.head) /\ st.head[st.cur].value < b
    THEN AdvanceCursor([st EXCEPT !.rank = @ + st.head[st.cur].rank, !.cur = @ + 1], b)
    ELSE st

\* seq with x placed right after position k.
InsertAfter(seq, k, x) == SubSeq(seq, 1, k) \o <<x>> \o SubSeq(seq, k + 1, Len(seq))

\* Estimator._replace_batch, one iteration of "for b in self._buffer".  st holds
\* the chain, the cursor (current, as a position of the chain), the running rank
\* and _observations; every _record adds one to _observations.
BatchStep(invs, st, b) ==
    LET s1 == IF b < st.head[1].value
              THEN [st EXCEPT !.head = <<Sample(b, 1, 0)>> \o @,
                              !.cur = @ + 1,
                              !.observations = @ + 1]
              ELSE st
        s2 == AdvanceCursor(s1, b)
        s3 == IF s2.cur = Len(s2.head)
              THEN [s2 EXCEPT !.head = Append(@, Sample(b, 1, 0)),
                              !.observations = @ + 1]
              ELSE s2
        delta == Invariant(invs, s3.rank, s3.observations) - 1
    IN  [s3 EXCEPT !.head = InsertAfter(@, s3.cur, Sample(b, 1, delta)),
                   !.observations = @ + 1]

RECURSIVE BatchLoop(_, _, _, _)
BatchLoop(invs, st, buf, k) ==
    IF k > Len(buf) THEN st
    ELSE BatchLoop(invs, BatchStep(invs, st, buf[k]), buf, k + 1)

\* Estimator._replace_batch: the estimator with its (sorted) buffer committed to
\* the chain.  The buffer is left to _flush to clear.
ReplaceBatch(invs, e) ==
    IF e.head = <<>> /\ e.buffer = <<>> THEN e
    ELSE LET seeded == e.head = <<>>
             head0 == IF seeded THEN <<Sample(e.buffer[1], 1, 0)>> ELSE e.head
             obs0 == IF seeded THEN e.observations + 1 ELSE e.observations
             buf0 == IF seeded THEN Tail(e.buffer) ELSE e.buffer
             st == BatchLoop(invs,
                             [head |-> head0, cur |-> 1, rank |-> 0, observations |-> obs0],
                             buf0, 1)
         IN  [buffer |-> buf0, head |-> st.head, observations |-> st.observations]

\* Merge with "=" in place of "+=" on _rank.
MergeAssignRank(c, s) == Sample(s.value, s.rank, s.delta)

\* Estimator._compress, the merge: current takes the value and delta of its
\* successor (removed) and adds its rank.
Merge(c, s) == Sample(s.value, c.rank + s.rank, s.delta)

\* Estimator._compress, the loop from the node at position cur on.
RECURSIVE CompressLoop(_, _, _, _, _)
CompressLoop(invs, head, cur, rank, n) ==
    IF cur >= Len(head) THEN head
    ELSE LET c == head[cur]
             s == head[cur + 1]
             h2 == IF c.rank + s.rank + s.delta <= Invariant(invs, rank, n)
                   THEN SubSeq(head, 1, cur - 1)
                        \o <<Merge(c, s)>>
                        \o SubSeq(head, cur + 2, Len(head))
                   ELSE head
         IN  CompressLoop(invs, h2, cur + 1, rank + h2[cur].rank, n)

\* Estimator._compress
Compress(invs, e) == [e EXCEPT !.head = CompressLoop(invs, e.head, 1, 0, e.observations)]

\* SortBuffer with the sort left out.
SortBufferNone(buf) == buf

\* list.sort() of the buffer.
SortBuffer(buf) == SortSeq(buf, LAMBDA a, b : a < b)

\* Estimator._flush
Flush(invs, e) ==
    LET sorted == [e EXCEPT !.buffer = SortBuffer(e.buffer)]
        replaced == ReplaceBatch(invs, sorted)
    IN  Compress(invs, [replaced EXCEPT !.buffer = <<>>])

\* Estimator.observe(value)
EstObserve(invs, e, value) ==
    LET appended == [e EXCEPT !.buffer = Append(@, value)]
    IN  IF Len(appended.buffer) = BUFFER_SIZE THEN Flush(invs, appended) ELSE appended

\* Estimator.query, the final walk of the chain from the node at position cur.
RECURSIVE QueryWalk(_, _, _, _)
QueryWalk(head, cur, rank, max_rank) ==
    IF cur = Len(head) THEN head[cur].value
    ELSE LET rk == rank + head[cur].rank
         IN  IF rk + head[cur + 1].rank + head[cur + 1].delta > max_rank
             THEN head[cur].value
             ELSE QueryWalk(head, cur + 1, rk, max_rank)

\* QueryValue with 0.0 returned for an empty chain in place of not-a-number.
QueryValueZeroOnEmpty(invs, f, rank) ==
    IF f.head = <<>> THEN Rat(0, 1)
    ELSE IF rank.n = 0 THEN Rat(f.head[1].value, 1)
    ELSE IF rank.n = rank.d THEN Rat(f.head[Len(f.head)].value, 1)
    ELSE LET mid_rank == (rank.n * f.observations) \div rank.d
             max_rank == mid_rank + (Invariant(invs, mid_rank, f.observations) + 1) \div 2
         IN  Rat(QueryWalk(f.head, 1, 0, max_rank), 1)

\* The value Estimator.query(rank) returns on the flushed estimator f; rank is
\* the rational rank.n / rank.d.
QueryValue(invs, f, rank) ==
    IF f.head = <<>> THEN NaN
    ELSE IF rank.n = 0 THEN Rat(f.head[1].value, 1)
    ELSE IF rank.n = rank.d THEN Rat(f.head[Len(f.head)].value, 1)
    ELSE LET mid_rank == (rank.n * f.observations) \div rank.d
             max_rank == mid_rank + (Invariant(invs, mid_rank, f.observations) + 1) \div 2
         IN  Rat(QueryWalk(f.head, 1, 0, max_rank), 1)

\* EstQuery with the flush left out.
EstQueryNoFlush(invs, e, rank) == [est |-> e, ret |-> QueryValue(invs, e, rank)]

\* Estimator.query(rank): the estimator after the call and the value returned.
EstQuery(invs, e, rank) ==
    LET f == Flush(invs, e)
    IN  [est |-> f, ret |-> QueryValue(invs, f, rank)]

\* ------------------------------------------------- TimeWindowEstimator
\* The index after current, wrapped to 0 at age_buckets.
NextBucket(current, buckets) == IF current + 1 >= buckets THEN 0 ELSE current + 1

\* RotateStep with the index advanced before the bucket is replaced.
RotateStepAdvanceFirst(tw, period, buckets) ==
    LET next == NextBucket(tw.current_bucket, buckets)
    IN  [tw EXCEPT !.ring_buckets[next + 1] = NewEstimator,
                   !.current_bucket = next,
                   !.last_rotate_time_ms = @ + period,
                   !.fed[next + 1] = <<>>,
                   !.replaced[next + 1] = tw.rotations + 1,
                   !.rotations = @ + 1]

\* RotateStep with last_rotate_time_ms left where it was.
RotateStepKeepTimestamp(tw, period, buckets) ==
    LET k == tw.current_bucket + 1
    IN  [tw EXCEPT !.ring_buckets[k] = NewEstimator,
                   !.current_bucket = NextBucket(tw.current_bucket, buckets),
                   !.fed[k] = <<>>,
                   !.replaced[k] = tw.rotations + 1,
                   !.rotations = @ + 1]

\* One iteration of the loop of TimeWindowEstimator.rotate_buckets: the bucket
\* at current_bucket is replaced by a new Estimator, current_bucket advances
\* and last_rotate_time_ms moves on by one period.  tw holds ring_buckets,
\* current_bucket and last_rotate_time_ms, and the histories fed, replaced and
\* rotations; period is duration_between_rotates_ms, buckets is age_buckets.
RotateStep(tw, period, buckets) ==
    LET k == tw.current_bucket + 1
    IN  [tw EXCEPT !.ring_buckets[k] = NewEstimator,
                   !.current_bucket = NextBucket(tw.current_bucket, buckets),
                   !.last_rotate_time_ms = @ + period,
                   !.fed[k] = <<>>,
                   !.replaced[k] = tw.rotations + 1,
                   !.rotations = @ + 1]

\* The loop of TimeWindowEstimator.rotate_buckets; since is
\* time_since_last_rotate_ms (period > 0 here).
RECURSIVE RotateLoop(_, _, _, _)
RotateLoop(tw, since, period, buckets) ==
    IF since > period
    THEN RotateLoop(RotateStep(tw, period, buckets), since - period, period, buckets)
    ELSE tw

\* RotateBuckets with "if" in place of "while": at most one rotation a call.
RotateBucketsOnce(tw, now, period, buckets) ==
    IF now - tw.last_rotate_time_ms > period THEN RotateStep(tw, period, buckets) ELSE tw

\* TimeWindowEstimator.rotate_buckets() called when time_ms() returns now.
RotateBuckets(tw, now, period, buckets) ==
    RotateLoop(tw, now - tw.last_rotate_time_ms, period, buckets)

\* ObserveAll that observes into ring_buckets[0] only.
ObserveFirstOnly(invs, ring, value) ==
    [k \in 1..Len(ring) |-> IF k = 1 THEN EstObserve(invs, ring[k], value) ELSE ring[k]]

\* "for bucket in self.ring_buckets: bucket.observe(value)"
ObserveAll(invs, ring, value) ==
    [k \in 1..Len(ring) |-> EstObserve(invs, ring[k], value)]

\* ObserveCounters with "=" in place of "+=" on _sum.
ObserveCountersAssign(count, sum, value) == [observations |-> count + 1, sum |-> value]

\* The end of TimeWindowEstimator.observe: _observations += 1, _sum += value.
ObserveCounters(count, sum, value) == [observations |-> count + 1, sum |-> sum + value]

\* The permutations of the sequence seq.
Orders(seq) ==
    { [k \in 1..Len(seq) |-> seq[p[k]]] : p \in Permutations(1..Len(seq)) }

\* observe called with each value of seq in turn.
RECURSIVE ObserveSeq(_, _, _, _)
ObserveSeq(invs, e, seq, k) ==
    IF k > Len(seq) THEN e
    ELSE ObserveSeq(invs, EstObserve(invs, e, seq[k]), seq, k + 1)

\* ------------------------------------------------------------- the state
VARIABLES
    invariants,     \* _invariants: the sequence of Quantile targets
    buffer,         \* Estimator._buffer
    head,           \* Estimator._head: the chain of samples, <<>> for None
    observations,   \* Estimator._observations
    max_age_seconds,                \* TimeWindowEstimator.max_age_seconds
    age_buckets,                    \* TimeWindowEstimator.age_buckets
    duration_between_rotates_ms,    \* TimeWindowEstimator.duration_between_rotates_ms
    ring_buckets,                   \* TimeWindowEstimator.ring_buckets
    current_bucket,                 \* TimeWindowEstimator.current_bucket (from 0)
    last_rotate_time_ms,            \* TimeWindowEstimator.last_rotate_time_ms
    tw_observations,                \* TimeWindowEstimator._observations
    tw_sum,                         \* TimeWindowEstimator._sum
    clock,          \* what time_ms() returns
    fed,            \* history: per bucket, the <<value, time>> observed since it was made
    replaced,       \* history: per bucket, the number of the rotation that made it (0: the constructor)
    rotations,      \* history: the number of bucket replacements so far
    rotated,        \* history: the number of bucket replacements of the last call
    pc,             \* where the call in progress stands: "idle" (none), "rotating"
    time_since_last_rotate_ms,      \* the local of rotate_buckets (0 outside it)
    log,            \* history: <<value, time>> of every observe call of the window
    observed,       \* history: every value passed to Estimator.observe, sorted ascending
    batch,          \* history: the values of the last batch of observe calls
    pending_before, \* history: the length of _buffer before that batch
    outcomes,       \* history: the estimators the orders of that batch lead to
    op,             \* history: the last call: "init", "observe", "query", "batch", "tick"
    arg,            \* history: the argument of the last call
    ret             \* history: what the last call returned (not-a-number when nothing)

estVars == <<buffer, head, observations>>
twVars == <<max_age_seconds, age_buckets, duration_between_rotates_ms, ring_buckets,
            current_bucket, last_rotate_time_ms, tw_observations, tw_sum, clock,
            fed, replaced, rotations, rotated, log>>
batchVars == <<batch, pending_before, outcomes>>
stepVars == <<pc, time_since_last_rotate_ms>>
vars == <<invariants, estVars, twVars, batchVars, stepVars, observed, op, arg, ret>>

\* seq sorted ascending (the order the tests put the observed values in).
Sorted(seq) == SortSeq(seq, LAMBDA a, b : a < b)

\* The target configurations Estimator(*invariants) is constructed with.  The
\* constructor takes any pairs: the last one holds a quantile of 2.  The default
\* targets (0.5, 0.01), (0.99, 0.001) are left out: their coefficients are not
\* exact doubles.
Configs ==
    { <<Quantile(1, 2, 1, 4)>>,
      <<Quantile(0, 1, 0, 1), Quantile(1, 1, 0, 1)>>,
      <<Quantile(1, 2, 1, 8), Quantile(1, 1, 1, 8)>>,
      <<Quantile(2, 1, 1, 4)>> }

\* The ranks query is called with.
Ranks == { Rat(0, 1), Rat(1, 2), Rat(1, 1) }

Self == [buffer |-> buffer, head |-> head, observations |-> observations]

\* No TimeWindowEstimator has been constructed.
NoWindow ==
    /\ max_age_seconds = 0
    /\ age_buckets = 0
    /\ duration_between_rotates_ms = 0
    /\ ring_buckets = <<>>
    /\ current_bucket = 0
    /\ last_rotate_time_ms = 0
    /\ tw_observations = 0
    /\ tw_sum = 0
    /\ clock = 0
    /\ fed = <<>>
    /\ replaced = <<>>
    /\ rotations = 0
    /\ rotated = 0
    /\ log = <<>>

\* No call is in progress: the calls of this specification are single steps.
NoCall ==
    /\ pc = "idle"
    /\ time_since_last_rotate_ms = 0

\* No batch of observe calls has been made.
NoBatch ==
    /\ batch = <<>>
    /\ pending_before = 0
    /\ outcomes = {}

\* Estimator.__init__
Init ==
    /\ invariants \in Configs
    /\ buffer = NewEstimator.buffer
    /\ head = NewEstimator.head
    /\ observations = NewEstimator.observations
    /\ NoWindow
    /\ NoBatch
    /\ NoCall
    /\ observed = <<>>
    /\ op = "init"
    /\ arg = NaN
    /\ ret = NaN

\* A call of Estimator.observe(value).
Observe(value) ==
    /\ Len(observed) < MaxObs
    /\ LET e == EstObserve(invariants, Self, value)
       IN  /\ buffer' = e.buffer
           /\ head' = e.head
           /\ observations' = e.observations
    /\ observed' = Sorted(Append(observed, value))
    /\ op' = "observe"
    /\ arg' = Rat(value, 1)
    /\ ret' = NaN
    /\ UNCHANGED <<invariants, twVars, batchVars, stepVars>>

\* A call of Estimator.query(rank).
Query(rank) ==
    /\ LET q == EstQuery(invariants, Self, rank)
       IN  /\ buffer' = q.est.buffer
           /\ head' = q.est.head
           /\ observations' = q.est.observations
           /\ ret' = q.ret
    /\ op' = "query"
    /\ arg' = rank
    /\ UNCHANGED <<invariants, twVars, batchVars, stepVars, observed>>

Next ==
    \/ \E value \in Values : Observe(value)
    \/ \E rank \in Ranks : Query(rank)

Spec == Init /\ [][Next]_vars

\* ------------------------------------------------- batches of observe calls
\* The batches: at least two values and fewer than BUFFER_SIZE, listed in
\* ascending order (outcomes covers every order of each).
Batches ==
    { b \in UNION { [1..n -> Values] : n \in 2..(BUFFER_SIZE - 1) } :
        \A k \in 1..(Len(b) - 1) : b[k] <= b[k + 1] }

\* The observe calls of the batch b, with no query in between, and then a
\* flush; outcomes records what every order of b leads to.
ObserveBatch(b) ==
    /\ Len(observed) + Len(b) <= MaxObs
    /\ LET e == Flush(invariants, ObserveSeq(invariants, Self, b, 1))
       IN  /\ buffer' = e.buffer
           /\ head' = e.head
           /\ observations' = e.observations
    /\ outcomes' = { Flush(invariants, ObserveSeq(invariants, Self, o, 1)) : o \in Orders(b) }
    /\ batch' = b
    /\ pending_before' = Len(buffer)
    /\ observed' = Sorted(observed \o b)
    /\ op' = "batch"
    /\ arg' = NaN
    /\ ret' = NaN
    /\ UNCHANGED <<invariants, twVars, stepVars>>

\* The calls before the batch, and the batch, which ends the behaviour.
NextBatch ==
    \/ op # "batch" /\ \E value \in Values : Observe(value)
    \/ op # "batch" /\ Query(Rat(1, 1))
    \/ op # "batch" /\ \E b \in Batches : ObserveBatch(b)

SpecBatch == Init /\ [][NextBatch]_vars

\* ------------------------------------- the TimeWindowEstimator as a machine
\* max_age_seconds and age_buckets the window is constructed with; both give a
\* duration_between_rotates_ms above 0 (500 and 333), with which the loop of
\* rotate_buckets ends.
WindowConfigs == { <<1, 2>>, <<1, 3>> }

\* The targets the window is constructed with.
WindowTargets == { <<Quantile(1, 2, 1, 4)>>, <<Quantile(0, 1, 0, 1), Quantile(1, 1, 0, 1)>> }

WindowRanks == { Rat(0, 1), Rat(1, 2), Rat(1, 1) }

Window ==
    [ring_buckets |-> ring_buckets, current_bucket |-> current_bucket,
     last_rotate_time_ms |-> last_rotate_time_ms,
     fed |-> fed, replaced |-> replaced, rotations |-> rotations]

\* TimeWindowEstimator.__init__, with time_ms() returning 0.
InitWindow ==
    /\ invariants \in WindowTargets
    /\ \E c \in WindowConfigs :
          /\ max_age_seconds = c[1]
          /\ age_buckets = c[2]
          /\ duration_between_rotates_ms = (c[1] * 1000) \div c[2]
          /\ ring_buckets = [k \in 1..c[2] |-> NewEstimator]
          /\ fed = [k \in 1..c[2] |-> <<>>]
          /\ replaced = [k \in 1..c[2] |-> 0]
    /\ current_bucket = 0
    /\ clock = 0
    /\ last_rotate_time_ms = 0
    /\ tw_observations = 0
    /\ tw_sum = 0
    /\ rotations = 0
    /\ rotated = 0
    /\ log = <<>>
    /\ buffer = <<>>
    /\ head = <<>>
    /\ observations = 0
    /\ NoBatch
    /\ NoCall
    /\ observed = <<>>
    /\ op = "init"
    /\ arg = NaN
    /\ ret = NaN

\* The wall clock advances between two calls.
Tick ==
    /\ clock + TickMs <= MaxClock
    /\ clock' = clock + TickMs
    /\ op' = "tick"
    /\ arg' = NaN
    /\ ret' = NaN
    /\ UNCHANGED <<invariants, estVars, batchVars, max_age_seconds, age_buckets,
                   duration_between_rotates_ms, ring_buckets, current_bucket,
                   last_rotate_time_ms, tw_observations, tw_sum, fed, replaced,
                   rotations, rotated, log, stepVars, observed>>

\* A call of TimeWindowEstimator.observe(value).
WindowObserve(value) ==
    /\ Len(log) < MaxWindowObs
    /\ LET tw == RotateBuckets(Window, clock, duration_between_rotates_ms, age_buckets)
       IN  /\ ring_buckets' = ObserveAll(invariants, tw.ring_buckets, value)
           /\ current_bucket' = tw.current_bucket
           /\ last_rotate_time_ms' = tw.last_rotate_time_ms
           /\ fed' = [k \in 1..age_buckets |-> Append(tw.fed[k], <<value, clock>>)]
           /\ replaced' = tw.replaced
           /\ rotations' = tw.rotations
           /\ rotated' = tw.rotations - rotations
    /\ LET c == ObserveCounters(tw_observations, tw_sum, value)
       IN  /\ tw_observations' = c.observations
           /\ tw_sum' = c.sum
    /\ log' = Append(log, <<value, clock>>)
    /\ op' = "observe"
    /\ arg' = Rat(value, 1)
    /\ ret' = NaN
    /\ UNCHANGED <<invariants, estVars, batchVars, max_age_seconds, age_buckets,
                   duration_between_rotates_ms, clock, stepVars, observed>>

\* A call of TimeWindowEstimator.query(rank).
WindowQuery(rank) ==
    /\ LET tw == RotateBuckets(Window, clock, duration_between_rotates_ms, age_buckets)
           k == tw.current_bucket + 1
           q == EstQuery(invariants, tw.ring_buckets[k], rank)
       IN  /\ ring_buckets' = [tw.ring_buckets EXCEPT ![k] = q.est]
           /\ current_bucket' = tw.current_bucket
           /\ last_rotate_time_ms' = tw.last_rotate_time_ms
           /\ fed' = tw.fed
           /\ replaced' = tw.replaced
           /\ rotations' = tw.rotations
           /\ rotated' = tw.rotations - rotations
           /\ ret' = q.ret
    /\ op' = "query"
    /\ arg' = rank
    /\ UNCHANGED <<invariants, estVars, batchVars, max_age_seconds, age_buckets,
                   duration_between_rotates_ms, tw_observations, tw_sum, clock,
                   log, stepVars, observed>>

NextWindow ==
    \/ Tick
    \/ \E value \in WindowValues : WindowObserve(value)
    \/ \E rank \in WindowRanks : WindowQuery(rank)

SpecWindow == InitWindow /\ [][NextWindow]_vars

\* ------------------------------------- TimeWindowEstimator, the loop in steps
\* The window with the loop of rotate_buckets taken one iteration a step, for
\* the periods of WindowConfigs and for a period of 0: the constructor takes
\* any max_age_seconds and age_buckets and max_age_seconds * 1000 // age_buckets
\* is 0 for max_age_seconds = 0 (and for age_buckets above max_age_seconds * 1000).
RotateConfigs == WindowConfigs \cup { <<0, 2>> }

\* TimeWindowEstimator.__init__, with time_ms() returning 0.
InitRotate ==
    /\ invariants \in WindowTargets
    /\ \E c \in RotateConfigs :
          /\ max_age_seconds = c[1]
          /\ age_buckets = c[2]
          /\ duration_between_rotates_ms = (c[1] * 1000) \div c[2]
          /\ ring_buckets = [k \in 1..c[2] |-> NewEstimator]
          /\ fed = [k \in 1..c[2] |-> <<>>]
          /\ replaced = [k \in 1..c[2] |-> 0]
    /\ current_bucket = 0
    /\ clock = 0
    /\ last_rotate_time_ms = 0
    /\ tw_observations = 0
    /\ tw_sum = 0
    /\ rotations = 0
    /\ rotated = 0
    /\ log = <<>>
    /\ buffer = <<>>
    /\ head = <<>>
    /\ observations = 0
    /\ NoBatch
    /\ NoCall
    /\ observed = <<>>
    /\ op = "init"
    /\ arg = NaN
    /\ ret = NaN

\* The wall clock advances between two calls.
Wait ==
    /\ pc = "idle"
    /\ Tick

\* TimeWindowEstimator.observe(value) or query(rank) is called and enters
\* rotate_buckets: time_since_last_rotate_ms = time_ms() - last_rotate_time_ms.
Call(name, argument) ==
    /\ pc = "idle"
    /\ pc' = "rotating"
    /\ time_since_last_rotate_ms' = clock - last_rotate_time_ms
    /\ op' = name
    /\ arg' = argument
    /\ ret' = NaN
    /\ UNCHANGED <<invariants, estVars, twVars, batchVars, observed>>

CallObserve(value) ==
    /\ Len(log) < MaxWindowObs
    /\ Call("observe", Rat(value, 1))

CallQuery(rank) == Call("query", rank)

\* One iteration of the loop of rotate_buckets.  The histories rotations,
\* rotated and replaced are not kept: the loop need not end.
RotateIteration ==
    /\ pc = "rotating"
    /\ time_since_last_rotate_ms > duration_between_rotates_ms
    /\ LET tw == RotateStep(Window, duration_between_rotates_ms, age_buckets)
       IN  /\ ring_buckets' = tw.ring_buckets
           /\ current_bucket' = tw.current_bucket
           /\ last_rotate_time_ms' = tw.last_rotate_time_ms
           /\ fed' = tw.fed
    /\ time_since_last_rotate_ms' = time_since_last_rotate_ms - duration_between_rotates_ms
    /\ UNCHANGED <<invariants, estVars, batchVars, max_age_seconds, age_buckets,
                   duration_between_rotates_ms, tw_observations, tw_sum, clock,
                   replaced, rotations, rotated, log, pc, observed, op, arg, ret>>

\* The loop has ended: observe records the value into every bucket and returns.
ReturnObserve ==
    /\ pc = "rotating"
    /\ time_since_last_rotate_ms <= duration_between_rotates_ms
    /\ op = "observe"
    /\ ring_buckets' = ObserveAll(invariants, ring_buckets, arg.n)
    /\ fed' = [k \in 1..age_buckets |-> Append(fed[k], <<arg.n, clock>>)]
    /\ LET c == ObserveCounters(tw_observations, tw_sum, arg.n)
       IN  /\ tw_observations' = c.observations
           /\ tw_sum' = c.sum
    /\ log' = Append(log, <<arg.n, clock>>)
    /\ pc' = "idle"
    /\ time_since_last_rotate_ms' = 0
    /\ UNCHANGED <<invariants, estVars, batchVars, max_age_seconds, age_buckets,
                   duration_between_rotates_ms, current_bucket, last_rotate_time_ms,
                   clock, replaced, rotations, rotated, observed, op, arg, ret>>

\* The loop has ended: query asks the bucket at current_bucket and returns.
ReturnQuery ==
    /\ pc = "rotating"
    /\ time_since_last_rotate_ms <= duration_between_rotates_ms
    /\ op = "query"
    /\ LET k == current_bucket + 1
           q == EstQuery(invariants, ring_buckets[k], arg)
       IN  /\ ring_buckets' = [ring_buckets EXCEPT ![k] = q.est]
           /\ ret' = q.ret
    /\ pc' = "idle"
    /\ time_since_last_rotate_ms' = 0
    /\ UNCHANGED <<invariants, estVars, batchVars, max_age_seconds, age_buckets,
                   duration_between_rotates_ms, current_bucket, last_rotate_time_ms,
                   tw_observations, tw_sum, clock, fed, replaced, rotations, rotated,
                   log, observed, op, arg>>

\* The steps of the call in progress.
Running ==
    \/ RotateIteration
    \/ ReturnObserve
    \/ ReturnQuery

NextRotate ==
    \/ Wait
    \/ \E value \in WindowValues : CallObserve(value)
    \/ \E rank \in WindowRanks : CallQuery(rank)
    \/ Running

\* A call in progress takes its next step: the interpreter runs the one
\* thread of the caller on.
SpecRotate == InitRotate /\ [][NextRotate]_vars /\ WF_vars(Running)

\* ------------------------------------------------------------------ claims

\* The observed values sorted ascending, indexed from 0 as in the tests.
SortedAt(k) == observed[k + 1]

\* C1: once a value has been observed, query(0.0) returns the minimum of all
\* values observed so far, for every well-formed target configuration.
C1_QueryZeroReturnsMinimum ==
    (op = "query" /\ arg = Rat(0, 1) /\ observed # <<>> /\ WellFormed(invariants))
        => ret = Rat(SortedAt(0), 1)

\* C2: once a value has been observed, query(1.0) returns the maximum of all
\* values observed so far, for every well-formed target configuration.
C2_QueryOneReturnsMaximum ==
    (op = "query" /\ arg = Rat(1, 1) /\ observed # <<>> /\ WellFormed(invariants))
        => ret = Rat(SortedAt(Len(observed) - 1), 1)

\* floor(q*N - eps*N) and min(ceil(q*N + eps*N), N - 1) for the target i.
MinRank(i, N) == ((i.qn * i.ed - i.en * i.qd) * N) \div (i.qd * i.ed)
MaxRank(i, N) ==
    LET c == 0 - ((0 - (i.qn * i.ed + i.en * i.qd) * N) \div (i.qd * i.ed))
    IN  IF c < N - 1 THEN c ELSE N - 1

\* C3: for N >= 1 observed values and every registered target (q, eps),
\* sorted[floor(q*N - eps*N)] <= query(q) <= sorted[min(ceil(q*N + eps*N), N-1)]
\* (stated for the targets whose lower index is an index of sorted, 0..N-1).
C3_QueryWithinRankWindow ==
    (op = "query" /\ observed # <<>> /\ WellFormed(invariants))
        => \A k \in 1..Len(invariants) :
              LET i == invariants[k]
                  N == Len(observed)
              IN  (arg = Rat(i.qn, i.qd) /\ MinRank(i, N) \in 0..(N - 1))
                      => /\ ~ret.nan
                         /\ SortedAt(MinRank(i, N)) <= ret.n
                         /\ ret.n <= SortedAt(MaxRank(i, N))

\* C4: a query that directly follows a query of the same rank returns the
\* same value.
C4_QueryIdempotent ==
    [][(op = "query" /\ op' = "query" /\ arg' = arg) => ret' = ret]_vars

\* C7: a query of an estimator that has never observed a value returns
\* not-a-number and leaves the estimator empty.
C7_EmptyQueryReturnsNaN ==
    (op = "query" /\ observed = <<>>)
        => (ret = NaN /\ head = <<>> /\ buffer = <<>> /\ observations = 0)

C7_Witness ==
    op = "query" /\ observed = <<>> /\ arg = Rat(1, 1) /\ ret = NaN

\* C8: no estimator holding a target whose quantile or epsilon lies outside
\* [0, 1] reaches a state where observe or query has been called.
C8_MalformedTargetRejected ==
    op \in {"observe", "query"} => WellFormed(invariants)

Queried == current_bucket + 1
MaxAgeMs == max_age_seconds * 1000

\* C5: at a query of the window (non-decreasing clock), no observation made
\* more than max_age_seconds earlier is among those the queried bucket has
\* received, and every value the bucket holds and the value returned are values
\* observed within the window.
C5_StaleObservationsExpired ==
    op = "query" =>
        LET recent == { log[j][1] : j \in { i \in 1..Len(log) : clock - log[i][2] <= MaxAgeMs } }
            bucket == ring_buckets[Queried]
        IN  /\ \A j \in 1..Len(fed[Queried]) : clock - fed[Queried][j][2] <= MaxAgeMs
            /\ \A j \in 1..Len(bucket.head) : bucket.head[j].value \in recent
            /\ ret.nan \/ ret.n \in recent
            /\ ret.nan <=> fed[Queried] = <<>>

\* A observed, more than the window passes, B observed, query returns B.
C5_Witness ==
    /\ op = "query"
    /\ Len(log) = 2
    /\ clock - log[1][2] > MaxAgeMs
    /\ clock - log[2][2] <= MaxAgeMs
    /\ log[1][1] # log[2][1]
    /\ ret = Rat(log[2][1], 1)

\* C9: after the rotation of a query, no bucket of the ring was last replaced
\* earlier than the bucket at current_bucket.
C9_QueriedBucketIsOldest ==
    op = "query" => \A k \in 1..age_buckets : replaced[Queried] <= replaced[k]

\* A query after more rotations than the ring has buckets, at a bucket other
\* than the first.
C9_Witness ==
    /\ op = "query"
    /\ rotations > age_buckets
    /\ current_bucket > 0
    /\ replaced[Queried] > 0

RECURSIVE SumValues(_, _)
SumValues(seq, k) == IF k > Len(seq) THEN 0 ELSE seq[k][1] + SumValues(seq, k + 1)

\* C10: the window's _observations is the number of observe calls made and
\* _sum the sum of the values observed, after any calls and rotations.
C10_CountersTrackObserveCalls ==
    /\ tw_observations = Len(log)
    /\ tw_sum = SumValues(log, 1)

\* Two observations counted, then rotations and a query.
C10_Witness ==
    /\ op = "query"
    /\ rotations > 0
    /\ tw_observations = 2
    /\ tw_sum = 3
    /\ fed[Queried] = <<>>

\* The last call ended with a flush: a query, or the observe that filled the
\* buffer.
JustFlushed == op = "query" \/ (op = "observe" /\ buffer = <<>>)

\* C11: after every flush the chain is strictly ordered by ascending value.
C11_ChainStrictlyAscending ==
    (JustFlushed /\ WellFormed(invariants))
        => \A k \in 1..(Len(head) - 1) : head[k].value < head[k + 1].value

\* C12: a flush inserts exactly one node per pending value, so after every
\* flush _observations is the number of values flushed so far.
C12_OneNodePerValue ==
    (JustFlushed /\ WellFormed(invariants)) => observations = Len(observed)

\* The sum of the ranks of the first k nodes of the chain.
RECURSIVE RankBefore(_, _)
RankBefore(chain, k) == IF k = 0 THEN 0 ELSE chain[k].rank + RankBefore(chain, k - 1)

\* C13: after every flush the sum of rank over the chain equals _observations.
C13_RankSumIsObservations ==
    JustFlushed => RankBefore(head, Len(head)) = observations

\* A flush after which merged nodes (rank above 1) are in the chain.
C13_Witness ==
    /\ JustFlushed
    /\ Len(head) >= 2
    /\ \E k \in 1..Len(head) : head[k].rank > 1
    /\ RankBefore(head, Len(head)) = observations

\* C14: after every flush every node except the head has
\* rank + delta <= _invariant(r, _observations), r the sum of the ranks of the
\* nodes before it.
C14_NodesWithinInvariant ==
    (JustFlushed /\ WellFormed(invariants))
        => \A k \in 2..Len(head) :
              head[k].rank + head[k].delta
                  <= Invariant(invariants, RankBefore(head, k - 1), observations)

\* C15: every node of the chain has delta >= 0.
C15_UncertaintyNonNegative ==
    WellFormed(invariants) => \A k \in 1..Len(head) : head[k].delta >= 0

\* The values observed so far.
ObservedValues == { observed[k] : k \in 1..Len(observed) }

\* C19: once a value has been observed, query returns one of the values
\* observed, for every rank: never not-a-number, never another value.
C19_QueryReturnsObservedValue ==
    (op = "query" /\ observed # <<>>) => (~ret.nan /\ ret.n \in ObservedValues)

\* A query between the extremes, after merges, that returns neither the least
\* nor the greatest value observed.
C19_Witness ==
    /\ op = "query"
    /\ arg = Rat(1, 2)
    /\ Len(observed) >= 3
    /\ \E k \in 1..Len(head) : head[k].rank > 1
    /\ ~ret.nan
    /\ observed[1] < ret.n
    /\ ret.n < observed[Len(observed)]

\* The positions in ring_buckets of the buckets a call replaces that starts
\* with current_bucket at current and rotates n times.
Replaced(current, n) == { ((current + i) % age_buckets) + 1 : i \in 0..(n - 1) }

\* The ring after the rotations of a call that rotates n times: the buckets at
\* the positions passed are new, the others are as they were.
Rotated(n) ==
    [k \in 1..age_buckets |->
        IF k \in Replaced(current_bucket, n) THEN NewEstimator ELSE ring_buckets[k]]

\* The observe calls made since the bucket at position k was made: all of
\* them for a bucket of the constructor; for the bucket of the j-th rotation
\* those made after j periods had passed.
ObservedSince(k) ==
    SelectSeq(log, LAMBDA e : replaced[k] = 0
                                \/ e[2] > replaced[k] * duration_between_rotates_ms)

\* The values an Estimator holds, pending or in its chain.
Held(e) ==
    { e.buffer[j] : j \in 1..Len(e.buffer) } \cup { e.head[j].value : j \in 1..Len(e.head) }

\* C16: observe rotates and then records the value into every bucket; a
\* rotation replaces the bucket at current_bucket and leaves the other buckets
\* as they were; so each bucket has received exactly the values observed since
\* it was made, and holds no other value.
C16_ObserveFeedsEveryBucket ==
    /\ [](\A k \in 1..age_buckets :
            /\ fed[k] = ObservedSince(k)
            /\ Held(ring_buckets[k]) \subseteq { fed[k][j][1] : j \in 1..Len(fed[k]) }
            /\ (ring_buckets[k] = NewEstimator) <=> (fed[k] = <<>>))
    /\ [][/\ (op' = "observe")
                => \A k \in 1..age_buckets :
                      ring_buckets'[k] = EstObserve(invariants, Rotated(rotated')[k], arg'.n)
          /\ (op' = "query")
                => \A k \in (1..age_buckets) \ {current_bucket' + 1} :
                      ring_buckets'[k] = Rotated(rotated')[k]
          /\ (op' = "tick") => ring_buckets' = ring_buckets]_vars

\* An observe that rotated: a bucket it replaced has received its value only,
\* a bucket it left has the value observed before as well.
C16_Witness ==
    /\ op = "observe"
    /\ rotated >= 1
    /\ \E j, k \in 1..age_buckets :
          /\ Len(fed[j]) = 2
          /\ Len(fed[k]) = 1
          /\ ring_buckets[j].buffer = <<fed[j][1][1], fed[j][2][1]>>
          /\ ring_buckets[k].buffer = <<fed[k][1][1]>>

\* C17: a call that rotates n times has replaced the n buckets from
\* current_bucket on and advanced current_bucket n times, wrapping at
\* age_buckets, and last_rotate_time_ms by n periods; n is the number of whole
\* periods consumed: afterwards 0 <= now - last_rotate_time_ms <= period, above
\* 0 when it rotated; and 0 <= current_bucket < age_buckets.
C17_RotationCatchesUp ==
    [][(op' \in {"observe", "query"})
          => /\ rotated' = rotations' - rotations
             /\ last_rotate_time_ms'
                    = last_rotate_time_ms + rotated' * duration_between_rotates_ms
             /\ current_bucket' = (current_bucket + rotated') % age_buckets
             /\ \A k \in 1..age_buckets :
                    (replaced'[k] > rotations) <=> (k \in Replaced(current_bucket, rotated'))
             /\ 0 <= clock' - last_rotate_time_ms'
             /\ clock' - last_rotate_time_ms' <= duration_between_rotates_ms
             /\ (rotated' > 0) => (clock' - last_rotate_time_ms' > 0)
             /\ 0 <= current_bucket'
             /\ current_bucket' < age_buckets]_vars

\* A query after an idle gap that rotated more than once and wrapped
\* current_bucket to 0.
C17_Witness ==
    /\ op = "query"
    /\ rotated >= 2
    /\ rotations = rotated
    /\ current_bucket = 0
    /\ last_rotate_time_ms = rotated * duration_between_rotates_ms
    /\ clock - last_rotate_time_ms > 0
    /\ clock - last_rotate_time_ms <= duration_between_rotates_ms

\* C18: every observe and query call of the window returns, for every
\* max_age_seconds and age_buckets the constructor takes and every elapsed time.
C18_EveryCallReturns == (pc = "rotating") ~> (pc = "idle")

====
